---- MODULE Spec2Model ----
(***************************************************************************)
(* KHPS2 ductile-fracture calibration (package/*.py).                      *)
(*                                                                         *)
(* Four specifications:                                                    *)
(*   Spec         run_khps2_analysis from its entry, through the call of   *)
(*                KHPS2_calculation and of least_squares, up to the first  *)
(*                evaluation of the objective;                             *)
(*   SpecPostFit  KHPS2_calculation from the point where least_squares has *)
(*                returned result.x (any vector of ParamVectors), through  *)
(*                the derived arrays and error aggregates, back into       *)
(*                run_khps2_analysis, the plot and the returned summary;   *)
(*   SpecFn       KHPS2_function and locus_calculation called on their own *)
(*                with the same parameter vector and specimens;            *)
(*   SpecLocus    locus_calculation called with two numpy arrays of any    *)
(*                shapes, scalars included.                                *)
(* Spec never reaches the return of least_squares: the objective raises at *)
(* its first evaluation. SpecPostFit therefore states what lines 82-134    *)
(* compute for a given solver result, not what a run from the entry        *)
(* returns.                                                                *)
(*                                                                         *)
(* Floating-point values are modelled as extended rationals: a finite      *)
(* value n/d in lowest terms, NaN, +Inf or -Inf, with the IEEE-754 rules   *)
(* numpy applies to the special values (x/0 = +-Inf, 0/0 = NaN, anything   *)
(* with NaN = NaN, comparisons with NaN are false). Finite arithmetic is   *)
(* exact: rounding, overflow of finite values and the sign of zero are not *)
(* modelled. Machine epsilon is 2^-MantissaBits.                           *)
(*                                                                         *)
(* Python sequences are 0-indexed, TLA+ sequences 1-indexed: G[0]..G[5]    *)
(* are G[1]..G[6] here, specimen[0..2] are specimen[1..3] and z_lim[1] is  *)
(* z_lim[2].                                                               *)
(***************************************************************************)
EXTENDS Integers, Sequences, FiniteSets, TLC

VARIABLES
    pc,                   \* position of the running call
    err,                  \* exception raised and not handled, or "none"
    \* arguments of run_khps2_analysis / KHPS2_calculation
    specimen_data,        \* ordered specimen set: sequence of <<strain, triaxiality, invariant>>
    initial_G, lower_bounds, upper_bounds,
    denominator_epsilon, z_lim,
    \* KHPS2_function and locus_calculation called on their own
    G,                    \* parameter vector handed to them
    residuals,            \* value returned by KHPS2_function
    locus,                \* value returned by locus_calculation
    tri_array,            \* array arguments of locus_calculation: tri_values and
    invar_array,          \*   invar_values as [shape |-> dimensions, data |-> elements]
    \* calls made
    calc_calls,           \* calls of KHPS2_calculation
    lsq_calls,            \* calls of least_squares
    fun_calls,            \* calls of the objective by least_squares before its first result
    plot_calls,           \* calls of KHPS2_plotting
    plot_args,            \* arguments KHPS2_plotting was called with
    summary,              \* dictionary returned by run_khps2_analysis
    \* locals of KHPS2_calculation
    result_x,             \* result.x of least_squares
    final_G_params,
    x_tri, y_invar, tri_c, ef,
    tri1, invar1, ef1,
    tri_k, invar_k, ef_k, ef_kal, ef_r,
    total_abs_difference, p_calibration_error, pt_calibration_error

inputs  == <<specimen_data, initial_G, lower_bounds, upper_bounds,
             denominator_epsilon, z_lim>>
fnvars  == <<G, residuals, locus, tri_array, invar_array>>
calls   == <<calc_calls, lsq_calls, fun_calls, plot_calls, plot_args, summary>>
fitted  == <<result_x, final_G_params>>
surface == <<x_tri, y_invar, tri_c, ef>>
curve   == <<tri1, invar1, ef1>>
points  == <<tri_k, invar_k, ef_k, ef_kal, ef_r>>
errors  == <<total_abs_difference, p_calibration_error, pt_calibration_error>>

vars == <<pc, err, inputs, fnvars, calls, fitted, surface, curve, points, errors>>

-----------------------------------------------------------------------------
(* Bounds of the model *)

\* largest number of specimens in a specimen set
MaxSpecimens == 2
\* bits of the float mantissa: machine epsilon is 2^-MantissaBits (52 for float64)
MantissaBits == 4

-----------------------------------------------------------------------------
(* float64 as extended rationals *)

AbsInt(a) == IF a < 0 THEN -a ELSE a

RECURSIVE GCD(_, _)
GCD(a, b) == IF b = 0 THEN a ELSE GCD(b, a % b)

RECURSIVE Pow2(_)
Pow2(k) == IF k = 0 THEN 1 ELSE 2 * Pow2(k - 1)

Q(n, d) ==
    LET s == IF d < 0 THEN -1 ELSE 1
        g == GCD(AbsInt(n), AbsInt(d))
    IN  [k |-> "fin", n |-> (s * n) \div g, d |-> (s * d) \div g]

NaN    == [k |-> "nan", n |-> 0, d |-> 1]
PosInf == [k |-> "inf", n |-> 1, d |-> 1]
NegInf == [k |-> "inf", n |-> -1, d |-> 1]

IsNaN(x)    == x.k = "nan"
IsInf(x)    == x.k = "inf"
IsFinite(x) == x.k = "fin"
Sign(x)     == IF x.n > 0 THEN 1 ELSE IF x.n < 0 THEN -1 ELSE 0
InfOf(s)    == IF s > 0 THEN PosInf ELSE NegInf

FNeg(x) == IF IsNaN(x) THEN NaN ELSE [x EXCEPT !.n = -x.n]
FAbs(x) == IF IsNaN(x) THEN NaN ELSE [x EXCEPT !.n = AbsInt(x.n)]

FAdd(x, y) ==
    IF IsNaN(x) \/ IsNaN(y) THEN NaN
    ELSE IF IsInf(x) /\ IsInf(y) THEN (IF x.n = y.n THEN x ELSE NaN)
    ELSE IF IsInf(x) THEN x
    ELSE IF IsInf(y) THEN y
    ELSE LET g == GCD(x.d, y.d)
         IN  Q(x.n * (y.d \div g) + y.n * (x.d \div g), (x.d \div g) * y.d)

FSub(x, y) == FAdd(x, FNeg(y))

FMul(x, y) ==
    IF IsNaN(x) \/ IsNaN(y) THEN NaN
    ELSE IF IsInf(x) \/ IsInf(y)
         THEN (IF Sign(x) * Sign(y) = 0 THEN NaN ELSE InfOf(Sign(x) * Sign(y)))
    ELSE LET g1 == GCD(AbsInt(x.n), y.d)
             g2 == GCD(AbsInt(y.n), x.d)
         IN  Q((x.n \div g1) * (y.n \div g2), (x.d \div g2) * (y.d \div g1))

FDiv(x, y) ==
    IF IsNaN(x) \/ IsNaN(y) THEN NaN
    ELSE IF IsInf(x) /\ IsInf(y) THEN NaN
    ELSE IF IsInf(x) THEN (IF Sign(y) < 0 THEN FNeg(x) ELSE x)
    ELSE IF IsInf(y) THEN Q(0, 1)
    ELSE IF y.n = 0 THEN (IF x.n = 0 THEN NaN ELSE InfOf(Sign(x)))
    ELSE FMul(x, Q(y.d, y.n))

\* x < y, False when either is NaN
FLt(x, y) ==
    IF IsNaN(x) \/ IsNaN(y) THEN FALSE
    ELSE IF IsInf(x) THEN x.n < 0 /\ ~(IsInf(y) /\ y.n < 0)
    ELSE IF IsInf(y) THEN y.n > 0
    ELSE x.n * y.d < y.n * x.d

FGt(x, y) == FLt(y, x)

FSq(x) == FMul(x, x)

Half == Q(1, 2)
Two  == Q(2, 1)

\* np.finfo(float).eps
finfo_eps == Q(1, Pow2(MantissaBits))

-----------------------------------------------------------------------------
(* Locus_calculation.py *)

\* tri_c = -(G3 + (G1 - G3) / 2 - G2) * invar**2 - ((G1 - G3) / 2) * invar - G2
tri_c_value(G_params, invar) ==
    LET G1 == G_params[1]  G2 == G_params[2]  G3 == G_params[3]
    IN  FSub(FSub(FMul(FNeg(FSub(FAdd(G3, FDiv(FSub(G1, G3), Two)), G2)), FSq(invar)),
                  FMul(FDiv(FSub(G1, G3), Two), invar)),
             G2)

\* faulty variant: the guard clamps the denominator to epsilon instead of marking it undefined
denominator_filtered_clamped(denominator_raw, eps) ==
    IF FLt(FAbs(denominator_raw), eps) THEN eps ELSE denominator_raw

\* np.where(np.abs(denominator_raw) < denominator_epsilon, np.nan, denominator_raw)
denominator_filtered(denominator_raw, eps) ==
    IF FLt(FAbs(denominator_raw), eps) THEN NaN ELSE denominator_raw

\* ef = ((1/2) * (G4/den + G5/den) - (G6/den)) * invar**2
\*      + ((1/2) * (G4/den - G5/den)) * invar + G6/den
ef_value(G_params, den, invar) ==
    LET q4 == FDiv(G_params[4], den)
        q5 == FDiv(G_params[5], den)
        q6 == FDiv(G_params[6], den)
    IN  FAdd(FAdd(FMul(FSub(FMul(Half, FAdd(q4, q5)), q6), FSq(invar)),
                  FMul(FMul(Half, FSub(q4, q5)), invar)),
             q6)

\* one element of ef
ef_point(G_params, tri, invar, eps) ==
    ef_value(G_params,
             denominator_filtered(FSub(tri, tri_c_value(G_params, invar)), eps),
             invar)

\* arrays are functions of their index set; tri_values and invar_values have one shape
locus_calculation(G_params, tri_values, invar_values, eps) ==
    [tri_c |-> [i \in DOMAIN tri_values |-> tri_c_value(G_params, invar_values[i])],
     ef    |-> [i \in DOMAIN tri_values |->
                    ef_point(G_params, tri_values[i], invar_values[i], eps)]]

-----------------------------------------------------------------------------
(* KHPS2_function.py *)

\* faulty variant: the cut-off plane with the sign convention of locus_calculation's tri_c
cutoff_plane_as_tri_c(Gv, specimen) == tri_c_value(Gv, specimen[3])

\* cutoff_plane = (G[2] + (G[0] - G[2]) / 2 - G[1]) * specimen[2]**2
\*                + (G[0] - G[2]) * specimen[2] / 2 + G[1]
cutoff_plane(Gv, specimen) ==
    FAdd(FAdd(FMul(FSub(FAdd(Gv[3], FDiv(FSub(Gv[1], Gv[3]), Two)), Gv[2]),
                   FSq(specimen[3])),
              FDiv(FMul(FSub(Gv[1], Gv[3]), specimen[3]), Two)),
         Gv[2])

fracture_locus_prediction(Gv, specimen, current_cutoff_plane) ==
    LET den == FAdd(specimen[2], current_cutoff_plane)
    IN  FAdd(FAdd(FMul(FSub(FMul(Half, FAdd(FDiv(Gv[4], den), FDiv(Gv[5], den))),
                            FDiv(Gv[6], den)),
                       FSq(specimen[3])),
                  FMul(FMul(Half, FSub(FDiv(Gv[4], den), FDiv(Gv[5], den))),
                       specimen[3])),
             FDiv(Gv[6], den))

\* residual_val = specimen[0] - fracture_locus_prediction, appended in specimen order
KHPS2_function(Gv, specimens) ==
    [i \in 1..Len(specimens) |->
        FSub(specimens[i][1],
             fracture_locus_prediction(Gv, specimens[i], cutoff_plane(Gv, specimens[i])))]

-----------------------------------------------------------------------------
(* Inputs *)

\* G1..G3 shape the cut-off plane, G4..G6 the strain
CutOffParams ==
    { <<Q(0,1), Q(0,1), Q(0,1)>>,      \* cut-off 0
      <<Q(1,1), Q(1,1), Q(1,1)>>,      \* constant cut-off -1
      <<Q(1,1), Q(0,1), Q(-1,1)>>,     \* cut-off -invar
      <<Q(1,1), Q(0,1), Q(0,1)>> }     \* cut-off -(invar**2 + invar)/2
StrainParams ==
    { <<Q(1,2), Q(1,2), Q(1,2)>>,
      <<Q(-1,2), Q(-1,2), Q(-1,2)>>,
      <<Q(1,1), Q(1,2), Q(2,1)>>,
      <<Q(0,1), Q(0,1), Q(0,1)>> }
ParamVectors == { a \o b : a \in CutOffParams, b \in StrainParams }

\* <<fracture strain, stress triaxiality, normalized third invariant>>
Specimens ==
    { <<Q(1,2), Q(33,100), Q(0,1)>>,
      <<Q(0,1), Q(1,1), Q(1,2)>>,
      <<FNeg(finfo_eps), Q(1,1), Q(1,1)>>,
      <<Q(1,2), Q(0,1), Q(0,1)>> }

RECURSIVE SeqsUpTo(_, _)
SeqsUpTo(S, n) ==
    IF n = 0 THEN { <<>> }
    ELSE LET shorter == SeqsUpTo(S, n - 1)
         IN  shorter \cup { Append(q, x) : q \in { r \in shorter : Len(r) = n - 1 }, x \in S }

SpecimenSets == SeqsUpTo(Specimens, MaxSpecimens)

Epsilons == { Q(1,4), Q(1,2) }

None == <<>>

\* no local of KHPS2_calculation is assigned yet
NoLocals ==
    /\ result_x = None /\ final_G_params = None
    /\ x_tri = None /\ y_invar = None /\ tri_c = None /\ ef = None
    /\ tri1 = None /\ invar1 = None /\ ef1 = None
    /\ tri_k = None /\ invar_k = None /\ ef_k = None /\ ef_kal = None /\ ef_r = None
    /\ total_abs_difference = None /\ p_calibration_error = None
    /\ pt_calibration_error = None

-----------------------------------------------------------------------------
(* The residual function and the locus evaluator called on their own *)

column(specimens, c) == [i \in 1..Len(specimens) |-> specimens[i][c]]

InitFn ==
    /\ pc = "fn_entry"
    /\ err = "none"
    /\ specimen_data \in SpecimenSets
    /\ G \in ParamVectors
    /\ denominator_epsilon \in Epsilons \cup { Q(0,1) }
    /\ initial_G = None /\ lower_bounds = None /\ upper_bounds = None /\ z_lim = None
    /\ residuals = None /\ locus = None
    /\ tri_array = None /\ invar_array = None
    /\ calc_calls = 0 /\ lsq_calls = 0 /\ fun_calls = 0 /\ plot_calls = 0
    /\ plot_args = None /\ summary = None
    /\ NoLocals

CallKHPS2_function ==
    /\ pc = "fn_entry"
    /\ residuals' = KHPS2_function(G, specimen_data)
    /\ pc' = "fn_residuals"
    /\ UNCHANGED <<err, inputs, G, locus, tri_array, invar_array, calls, fitted,
                   surface, curve, points, errors>>

CallLocus_calculation ==
    /\ pc = "fn_residuals"
    /\ locus' = locus_calculation(G, column(specimen_data, 2), column(specimen_data, 3),
                                  denominator_epsilon)
    /\ pc' = "fn_done"
    /\ UNCHANGED <<err, inputs, G, residuals, tri_array, invar_array, calls, fitted,
                   surface, curve, points, errors>>

NextFn == CallKHPS2_function \/ CallLocus_calculation

SpecFn == InitFn /\ [][NextFn]_vars

-----------------------------------------------------------------------------
(* locus_calculation called with numpy arrays of any two shapes               *)
(* (Locus_calculation.py). An array is [shape |-> sequence of dimensions,     *)
(* data |-> function of the index tuples]; a scalar has shape <<>> and the    *)
(* one index <<>>. The function tests no shape: its element-wise operators    *)
(* apply numpy's broadcasting.                                                *)

MaxRank == 2
MaxDim  == 3

\* the index tuples of an array of shape s
RECURSIVE Indices(_)
Indices(s) ==
    IF Len(s) = 0 THEN { <<>> }
    ELSE { <<i>> \o r : i \in 1..Head(s), r \in Indices(Tail(s)) }

\* shape s aligned to the right in n dimensions, leading dimensions 1
padded(s, n) == [j \in 1..n |-> IF j <= n - Len(s) THEN 1 ELSE s[j - (n - Len(s))]]

rank_of(s1, s2) == IF Len(s1) >= Len(s2) THEN Len(s1) ELSE Len(s2)

\* numpy: two shapes broadcast when, aligned to the right, each pair of dimensions
\* is equal or has a 1
broadcastable(s1, s2) ==
    LET n == rank_of(s1, s2)
        a == padded(s1, n)
        b == padded(s2, n)
    IN  \A j \in 1..n : a[j] = b[j] \/ a[j] = 1 \/ b[j] = 1

broadcast_shape(s1, s2) ==
    LET n == rank_of(s1, s2)
        a == padded(s1, n)
        b == padded(s2, n)
    IN  [j \in 1..n |-> IF a[j] = 1 THEN b[j] ELSE a[j]]

\* the element of array a that index p of a broadcast result reads: the trailing
\* Len(a.shape) components of p, a dimension of size 1 being read at its one index
broadcast_element(a, p) ==
    LET r == Len(a.shape)
        n == Len(p)
    IN  a.data[[j \in 1..r |-> IF a.shape[j] = 1 THEN 1 ELSE p[n - r + j]]]

\* 22: tri_c has the shape of invar_values; 25: tri_values - tri_c raises ValueError
\* when the two shapes do not broadcast; 26-30: ef has the broadcast shape
locus_calculation_raises(tri_values, invar_values) ==
    ~broadcastable(tri_values.shape, invar_values.shape)

locus_calculation_arrays(G_params, tri_values, invar_values, eps) ==
    LET s == broadcast_shape(tri_values.shape, invar_values.shape)
    IN  [tri_c |-> [shape |-> invar_values.shape,
                    data  |-> [p \in Indices(invar_values.shape) |->
                                  tri_c_value(G_params, invar_values.data[p])]],
         ef    |-> [shape |-> s,
                    data  |-> [p \in Indices(s) |->
                                  ef_point(G_params, broadcast_element(tri_values, p),
                                           broadcast_element(invar_values, p), eps)]]]

\* shapes of rank 0..MaxRank with dimensions 1..MaxDim
Shapes == SeqsUpTo(1..MaxDim, MaxRank)

ArrayBases == { Q(0,1), Q(1,2) }

\* the array of shape s whose element at index p is base + (sum of p's 0-based
\* components) / 2
RECURSIVE IndexSum(_)
IndexSum(p) == IF Len(p) = 0 THEN 0 ELSE (Head(p) - 1) + IndexSum(Tail(p))

ramp(s, base) ==
    [shape |-> s,
     data  |-> [p \in Indices(s) |-> FAdd(base, Q(IndexSum(p), 2))]]

Arrays == { ramp(s, base) : s \in Shapes, base \in ArrayBases }

\* two of the parameter vectors: a cut-off varying with the invariant, and a
\* constant cut-off of 0
ArrayParamVectors ==
    { <<Q(1,1), Q(0,1), Q(-1,1), Q(1,1), Q(1,2), Q(2,1)>>,
      <<Q(0,1), Q(0,1), Q(0,1), Q(1,2), Q(1,2), Q(1,2)>> }

InitLocus ==
    /\ pc = "locus_entry"
    /\ err = "none"
    /\ G \in ArrayParamVectors
    /\ denominator_epsilon \in Epsilons
    /\ tri_array \in Arrays
    /\ invar_array \in Arrays
    /\ specimen_data = None
    /\ initial_G = None /\ lower_bounds = None /\ upper_bounds = None /\ z_lim = None
    /\ residuals = None /\ locus = None
    /\ calc_calls = 0 /\ lsq_calls = 0 /\ fun_calls = 0 /\ plot_calls = 0
    /\ plot_args = None /\ summary = None
    /\ NoLocals

\* locus_calculation(G, tri_array, invar_array, denominator_epsilon)
CallLocus_calculation_arrays ==
    /\ pc = "locus_entry"
    /\ IF locus_calculation_raises(tri_array, invar_array)
       THEN /\ err' = "ValueError"
            /\ pc' = "locus_raised"
            /\ locus' = locus
       ELSE /\ err' = err
            /\ pc' = "locus_returned"
            /\ locus' = locus_calculation_arrays(G, tri_array, invar_array,
                                                 denominator_epsilon)
    /\ UNCHANGED <<inputs, G, residuals, tri_array, invar_array, calls, fitted,
                   surface, curve, points, errors>>

NextLocus == CallLocus_calculation_arrays

SpecLocus == InitLocus /\ [][NextLocus]_vars

-----------------------------------------------------------------------------
(* run_khps2_analysis from its entry: Main_workflow.py, KHPS2_calculation.py *)

\* length of the parameter vector [G1, ..., G6]
NumParams == 6
\* positional parameters of def KHPS2_function(G, specimen_data)
KHPS2_function_nparams == 2
\* positional arguments of the call KHPS2_function(G_params, specimen_data, denominator_epsilon)
objective_call_nargs == 3

WideLower == [i \in 1..NumParams |-> Q(-2,1)]
WideUpper == [i \in 1..NumParams |-> Q(2,1)]

\* <<lower_bounds, upper_bounds>> offered with initial guess x0
BoundsChoices(x0) ==
    { <<WideLower, WideUpper>>,                          \* x0 strictly inside
      <<x0, WideUpper>>,                                 \* x0 on the lower bounds
      <<x0, x0>>,                                        \* zero width
      <<WideUpper, WideLower>>,                          \* lower above upper
      <<[WideLower EXCEPT ![1] = Q(3,1)], WideUpper>>,   \* one lower bound above its upper
      <<SubSeq(WideLower, 1, NumParams - 1), WideUpper>>,\* 5-element lower bounds
      <<WideLower, SubSeq(WideUpper, 1, NumParams - 1)>> }

ZLimits == { <<Q(0,1), Q(1,1)>>, <<Q(0,1), Q(2,1)>> }

\* the argument checks scipy.optimize.least_squares makes before it first calls
\* the objective: shapes of the bounds against x0, lb < ub, x0 within the bounds
least_squares_rejects(x0, lb, ub) ==
    \/ Len(lb) # Len(x0)
    \/ Len(ub) # Len(x0)
    \/ \E i \in 1..Len(x0) : ~FLt(lb[i], ub[i])
    \/ \E i \in 1..Len(x0) : FLt(x0[i], lb[i]) \/ FGt(x0[i], ub[i])

Init ==
    /\ pc = "main_entry"
    /\ err = "none"
    /\ specimen_data \in SpecimenSets
    /\ initial_G \in ParamVectors
    /\ \E b \in BoundsChoices(initial_G) : lower_bounds = b[1] /\ upper_bounds = b[2]
    /\ denominator_epsilon \in Epsilons
    /\ z_lim \in ZLimits
    /\ G = None /\ residuals = None /\ locus = None
    /\ tri_array = None /\ invar_array = None
    /\ calc_calls = 0 /\ lsq_calls = 0 /\ fun_calls = 0 /\ plot_calls = 0
    /\ plot_args = None /\ summary = None
    /\ NoLocals

\* Main_workflow.py 56-60: run_khps2_analysis calls KHPS2_calculation
CallKHPS2_calculation ==
    /\ pc = "main_entry"
    /\ calc_calls' = calc_calls + 1
    /\ pc' = "calc_entry"
    /\ UNCHANGED <<err, inputs, fnvars, lsq_calls, fun_calls, plot_calls, plot_args,
                   summary, fitted, surface, curve, points, errors>>

\* KHPS2_calculation.py 78-79: the first statement hands the arguments to least_squares
CallLeast_squares ==
    /\ pc = "calc_entry"
    /\ lsq_calls' = lsq_calls + 1
    /\ IF least_squares_rejects(initial_G, lower_bounds, upper_bounds)
       THEN err' = "ValueError" /\ pc' = "calc_raised"
       ELSE err' = err /\ pc' = "lsq_objective"
    /\ UNCHANGED <<inputs, fnvars, calc_calls, fun_calls, plot_calls, plot_args,
                   summary, fitted, surface, curve, points, errors>>

\* KHPS2_calculation.py 78: least_squares evaluates the objective at x0; the lambda
\* calls KHPS2_function with three positional arguments
EvaluateObjective ==
    /\ pc = "lsq_objective"
    /\ fun_calls' = fun_calls + 1
    /\ G' = initial_G
    /\ IF objective_call_nargs # KHPS2_function_nparams
       THEN /\ err' = "TypeError"
            /\ pc' = "calc_raised"
            /\ residuals' = residuals
       ELSE /\ err' = err
            /\ pc' = "lsq_f0"
            /\ residuals' = KHPS2_function(initial_G, specimen_data)
    /\ UNCHANGED <<inputs, locus, tri_array, invar_array, calc_calls, lsq_calls,
                   plot_calls, plot_args, summary, fitted, surface, curve, points, errors>>

\* an exception raised in KHPS2_calculation is handled neither there nor in
\* run_khps2_analysis (Main_workflow.py 56-60)
RaiseFromCalculation ==
    /\ pc = "calc_raised"
    /\ pc' = "main_raised"
    /\ UNCHANGED <<err, inputs, fnvars, calls, fitted, surface, curve, points, errors>>

Next ==
    \/ CallKHPS2_calculation
    \/ CallLeast_squares
    \/ EvaluateObjective
    \/ RaiseFromCalculation

Spec == Init /\ [][Next]_vars

-----------------------------------------------------------------------------
(* KHPS2_calculation after least_squares has returned: KHPS2_calculation.py 82-134 *)

\* samples per axis of the surface mesh (999 in the source)
MeshN == 5
\* samples of the plane-stress curve (999 in the source)
CurveN == 3

\* np.linspace(start, stop, num), num >= 2
linspace(start, stop, num) ==
    [i \in 1..num |->
        FAdd(start, FDiv(FMul(Q(i - 1, 1), FSub(stop, start)), Q(num - 1, 1)))]

\* np.meshgrid(X, Y): rows follow Y, columns follow X; a 2D array is a function of <<row, column>>
meshgrid_x(X, Y) == [p \in (1..Len(Y)) \X (1..Len(X)) |-> X[p[2]]]
meshgrid_y(X, Y) == [p \in (1..Len(Y)) \X (1..Len(X)) |-> Y[p[1]]]

\* faulty variant: the cut-off test reversed
mask_behind_cut_off_reversed(a, x, tc) ==
    [i \in DOMAIN a |-> IF FGt(x[i], tc[i]) THEN NaN ELSE a[i]]

\* ef[x_tri < tri_c] = np.nan
mask_behind_cut_off(a, x, tc) ==
    [i \in DOMAIN a |-> IF FLt(x[i], tc[i]) THEN NaN ELSE a[i]]

\* ef[ef < 0] = np.nan
mask_below_zero(a) ==
    [i \in DOMAIN a |-> LET v == a[i] IN IF FLt(v, Q(0,1)) THEN NaN ELSE v]

\* faulty variant: the upper limit is not applied
mask_above_limit_skipped(a, z_max) == a

\* ef[ef > z_lim[1]] = np.nan
mask_above_limit(a, z_max) ==
    [i \in DOMAIN a |-> LET v == a[i] IN IF FGt(v, z_max) THEN NaN ELSE v]

\* invar1 = -27/2. * tri1 * (tri1**2 - 1/3)
plane_stress_invariant(t) ==
    FMul(FMul(Q(-27, 2), t), FSub(FSq(t), Q(1, 3)))

RECURSIVE FSum(_)
FSum(a) == IF Len(a) = 0 THEN Q(0,1) ELSE FAdd(FSum(SubSeq(a, 1, Len(a) - 1)), a[Len(a)])

\* faulty variant: the NaN residuals are kept
drop_nan_kept(a) == a

\* ef_r[~np.isnan(ef_r)]
drop_nan(a) == SelectSeq(a, LAMBDA v : ~IsNaN(v))

\* np.sum(np.abs(ef_r[~np.isnan(ef_r)]))
abs_difference_sum(r) ==
    LET kept == drop_nan(r)
    IN  FSum([i \in 1..Len(kept) |-> FAbs(kept[i])])

\* np.abs((ef_k - ef_kal) / (ef_k + np.finfo(float).eps)) * 100, then NaN replaced by 0
percentage_error(measured, predicted) ==
    LET e == FMul(FAbs(FDiv(FSub(measured, predicted), FAdd(measured, finfo_eps))),
                  Q(100, 1))
    IN  IF IsNaN(e) THEN Q(0,1) ELSE e

InitPostFit ==
    /\ pc = "calc_fitted"
    /\ err = "none"
    /\ specimen_data \in SpecimenSets
    /\ initial_G = <<Q(0,1), Q(0,1), Q(0,1), Q(1,2), Q(1,2), Q(1,2)>>
    /\ lower_bounds = WideLower /\ upper_bounds = WideUpper
    /\ denominator_epsilon \in Epsilons
    /\ z_lim \in ZLimits
    /\ G = None /\ residuals = None /\ locus = None
    /\ tri_array = None /\ invar_array = None
    /\ calc_calls = 1 /\ lsq_calls = 1 /\ fun_calls = 1 /\ plot_calls = 0
    /\ plot_args = None /\ summary = None
    /\ result_x \in ParamVectors
    /\ final_G_params = None
    /\ x_tri = None /\ y_invar = None /\ tri_c = None /\ ef = None
    /\ tri1 = None /\ invar1 = None /\ ef1 = None
    /\ tri_k = None /\ invar_k = None /\ ef_k = None /\ ef_kal = None /\ ef_r = None
    /\ total_abs_difference = None /\ p_calibration_error = None
    /\ pt_calibration_error = None

\* 82-83: final_G_params = result.x
TakeResult ==
    /\ pc = "calc_fitted"
    /\ final_G_params' = result_x
    /\ pc' = "calc_mesh"
    /\ UNCHANGED <<err, inputs, fnvars, calls, result_x, surface, curve, points, errors>>

\* 86-91: the surface mesh and the locus evaluated over it
EvaluateSurface ==
    /\ pc = "calc_mesh"
    /\ LET Y_invar == linspace(Q(-1,1), Q(1,1), MeshN)
           X_tri   == linspace(Q(-3,1), Q(3,1), MeshN)
       IN  /\ x_tri' = meshgrid_x(X_tri, Y_invar)
           /\ y_invar' = meshgrid_y(X_tri, Y_invar)
    /\ LET out == locus_calculation(final_G_params, x_tri', y_invar', denominator_epsilon)
       IN  /\ tri_c' = out.tri_c
           /\ ef' = out.ef
    /\ pc' = "calc_mask"
    /\ UNCHANGED <<err, inputs, fnvars, calls, fitted, curve, points, errors>>

\* 92-94: ef masked in place
MaskSurface ==
    /\ pc = "calc_mask"
    /\ ef' = mask_above_limit(mask_below_zero(mask_behind_cut_off(ef, x_tri, tri_c)),
                              z_lim[2])
    /\ pc' = "calc_curve"
    /\ UNCHANGED <<err, inputs, fnvars, calls, fitted, x_tri, y_invar, tri_c,
                   curve, points, errors>>

\* 97-103: the plane-stress curve, evaluated and masked
BuildPlaneStressCurve ==
    /\ pc = "calc_curve"
    /\ LET t   == linspace(Q(-2,3), Q(2,3), CurveN)
           inv == [i \in 1..Len(t) |-> plane_stress_invariant(t[i])]
           out == locus_calculation(final_G_params, t, inv, denominator_epsilon)
       IN  /\ tri1' = t
           /\ invar1' = inv
           /\ ef1' = mask_above_limit(mask_below_zero(out.ef), z_lim[2])
    /\ pc' = "calc_specimens"
    /\ UNCHANGED <<err, inputs, fnvars, calls, fitted, surface, points, errors>>

\* 106-115: the specimens' columns, the prediction at the specimens and the residuals;
\* np.array of no rows is one-dimensional, and indexing it [:, 0] raises IndexError
EvaluateCalibrationPoints ==
    /\ pc = "calc_specimens"
    /\ IF Len(specimen_data) = 0
       THEN /\ err' = "IndexError"
            /\ pc' = "calc_raised"
            /\ UNCHANGED points
       ELSE /\ err' = err
            /\ pc' = "calc_errors"
            /\ ef_k' = column(specimen_data, 1)
            /\ tri_k' = column(specimen_data, 2)
            /\ invar_k' = column(specimen_data, 3)
            /\ LET out == locus_calculation(final_G_params, column(specimen_data, 2),
                                            column(specimen_data, 3), denominator_epsilon)
               IN  /\ ef_kal' = out.ef
                   /\ ef_r' = [i \in 1..Len(specimen_data) |->
                                  FSub(specimen_data[i][1], out.ef[i])]
    /\ UNCHANGED <<inputs, fnvars, calls, fitted, surface, curve, errors>>

\* 119-129: the error aggregates
EvaluateErrors ==
    /\ pc = "calc_errors"
    /\ total_abs_difference' = abs_difference_sum(ef_r)
    /\ LET p == [i \in 1..Len(ef_k) |-> percentage_error(ef_k[i], ef_kal[i])]
       IN  /\ p_calibration_error' = p
           /\ pt_calibration_error' = FSum(p)
    /\ pc' = "calc_return"
    /\ UNCHANGED <<err, inputs, fnvars, calls, fitted, surface, curve, points>>

\* 133-134: KHPS2_calculation returns to run_khps2_analysis (Main_workflow.py 56-60)
ReturnCalculation ==
    /\ pc = "calc_return"
    /\ pc' = "main_plot"
    /\ UNCHANGED <<err, inputs, fnvars, calls, fitted, surface, curve, points, errors>>

\* the positional arguments of KHPS2_plotting, plotting_options left out
plotting_arguments ==
    [x_tri |-> x_tri, y_invar |-> y_invar, ef |-> ef,
     tri1 |-> tri1, invar1 |-> invar1, ef1 |-> ef1,
     tri_k |-> tri_k, invar_k |-> invar_k, ef_k |-> ef_k,
     specimen_data |-> specimen_data, tri_c |-> tri_c]

\* Main_workflow.py 64-65
CallKHPS2_plotting ==
    /\ pc = "main_plot"
    /\ plot_calls' = plot_calls + 1
    /\ plot_args' = plotting_arguments
    /\ pc' = "main_summary"
    /\ UNCHANGED <<err, inputs, fnvars, calc_calls, lsq_calls, fun_calls, summary,
                   fitted, surface, curve, points, errors>>

\* faulty variant: two of the totals exchanged
results_summary_exchanged ==
    [final_G_params       |-> final_G_params,
     total_abs_difference |-> pt_calibration_error,
     p_calibration_error  |-> p_calibration_error,
     pt_calibration_error |-> total_abs_difference,
     ef_r                 |-> ef_r]

\* Main_workflow.py 68-73
results_summary ==
    [final_G_params       |-> final_G_params,
     total_abs_difference |-> total_abs_difference,
     p_calibration_error  |-> p_calibration_error,
     pt_calibration_error |-> pt_calibration_error,
     ef_r                 |-> ef_r]

ReturnSummary ==
    /\ pc = "main_summary"
    /\ summary' = results_summary
    /\ pc' = "main_done"
    /\ UNCHANGED <<err, inputs, fnvars, calc_calls, lsq_calls, fun_calls, plot_calls,
                   plot_args, fitted, surface, curve, points, errors>>

NextPostFit ==
    \/ TakeResult
    \/ EvaluateSurface
    \/ MaskSurface
    \/ BuildPlaneStressCurve
    \/ EvaluateCalibrationPoints
    \/ EvaluateErrors
    \/ ReturnCalculation
    \/ RaiseFromCalculation
    \/ CallKHPS2_plotting
    \/ ReturnSummary

SpecPostFit == InitPostFit /\ [][NextPostFit]_vars

-----------------------------------------------------------------------------
(* Claims about run_khps2_analysis from its entry (Spec) *)

\* a non-empty specimen set, 6-element bounds, the initial guess inside them
WellFormedInput ==
    /\ Len(specimen_data) > 0
    /\ Len(initial_G) = NumParams
    /\ Len(lower_bounds) = NumParams /\ Len(upper_bounds) = NumParams
    /\ \A i \in 1..NumParams :
          ~FLt(initial_G[i], lower_bounds[i]) /\ ~FGt(initial_G[i], upper_bounds[i])

\* an empty specimen set, bounds that are not 6-element arrays, or a lower bound
\* above its upper bound
InvalidInput ==
    \/ Len(specimen_data) = 0
    \/ Len(lower_bounds) # NumParams
    \/ Len(upper_bounds) # NumParams
    \/ \E i \in 1..NumParams :
          /\ i \in DOMAIN lower_bounds /\ i \in DOMAIN upper_bounds
          /\ FGt(lower_bounds[i], upper_bounds[i])

\* C1: on well-formed input every evaluation of the objective, the call of
\* KHPS2_function with (candidate parameters, specimen set, epsilon), yields a
\* residual vector and no error, so that KHPS2_calculation reaches its return.
C1_ObjectiveNeverFails ==
    (WellFormedInput /\ fun_calls > 0) =>
        /\ err = "none"
        /\ DOMAIN residuals = 1..Len(specimen_data)

\* C8: on invalid input KHPS2_calculation fails with an input error before any
\* residual evaluation, and returns nothing. The ValueError of the solver's own
\* argument check is taken as the InvalidInput error.
C8_InvalidInputFailsFast ==
    InvalidInput =>
        /\ fun_calls = 0
        /\ err \in {"none", "ValueError"}
        /\ final_G_params = None

\* C9: with lower = upper = initial G the calibration completes without error and
\* the final parameters are the initial ones.
C9_DegenerateSolveCompletes ==
    (Len(specimen_data) > 0 /\ lower_bounds = initial_G /\ upper_bounds = initial_G) =>
        /\ err = "none"
        /\ pc # "main_raised"
        /\ (final_G_params # None => final_G_params = initial_G)

-----------------------------------------------------------------------------
(* Claims about the residual function and the locus evaluator (SpecFn) *)

\* |triaxiality_i - cutOff_i| < epsilon for specimen i of specimen_data, the
\* cut-off being the one locus_calculation returned
Singular(i) ==
    FLt(FAbs(FSub(specimen_data[i][2], locus.tri_c[i])), denominator_epsilon)

\* C2: KHPS2_function returns one residual per specimen, in specimen order, and
\* wherever |triaxiality_i - cutOff_i| >= epsilon residual_i is the measured
\* fracture strain minus the fracture strain locus_calculation returns for
\* (G, triaxiality_i, invariant_i, epsilon).
C2_ResidualMatchesLocus ==
    /\ pc \in {"fn_residuals", "fn_done"} =>
          DOMAIN residuals = 1..Len(specimen_data)
    /\ pc = "fn_done" =>
          \A i \in 1..Len(specimen_data) :
              ~Singular(i) => residuals[i] = FSub(specimen_data[i][1], locus.ef[i])

\* two different specimens, both regular, with different finite residuals, under a
\* parameter vector whose cut-off is not 0 at the first specimen
C2_Witness ==
    /\ pc = "fn_done"
    /\ Len(specimen_data) = 2
    /\ specimen_data[1] # specimen_data[2]
    /\ ~Singular(1) /\ ~Singular(2)
    /\ IsFinite(residuals[1]) /\ IsFinite(residuals[2])
    /\ residuals[1] # residuals[2]
    /\ locus.tri_c[1] # Q(0,1)
    /\ residuals[1] # Q(0,1)

\* C3: with epsilon > 0, wherever |triaxiality - cutOff| < epsilon the fracture
\* strain locus_calculation returns is NaN (not +Inf, -Inf or a finite number).
C3_SingularIsNaN ==
    pc = "fn_done" =>
        \A i \in 1..Len(specimen_data) :
            (FGt(denominator_epsilon, Q(0,1)) /\ Singular(i)) => IsNaN(locus.ef[i])

\* a point with denominator exactly 0 and a point with 0 < |denominator| < epsilon
C3_Witness ==
    /\ pc = "fn_done"
    /\ FGt(denominator_epsilon, Q(0,1))
    /\ \E i, j \in 1..Len(specimen_data) :
          /\ Singular(i) /\ specimen_data[i][2] = locus.tri_c[i]
          /\ Singular(j) /\ specimen_data[j][2] # locus.tri_c[j]
          /\ IsNaN(locus.ef[i]) /\ IsNaN(locus.ef[j])

\* C12: for every parameter vector and every specimen whose denominator is singular
\* (|triaxiality - cutOff| < epsilon, exactly 0 included), the specimen's entry of
\* the residual vector KHPS2_function returns is NaN (not +Inf, -Inf or a finite
\* number), and the entries of the other specimens are the measured strain minus
\* the strain of the locus.
C12_SingularResidualIsNaN ==
    pc = "fn_done" =>
        \A i \in 1..Len(specimen_data) :
            /\ Singular(i) => IsNaN(residuals[i])
            /\ ~Singular(i) => residuals[i] = FSub(specimen_data[i][1], locus.ef[i])

-----------------------------------------------------------------------------
(* Claim about locus_calculation called with arrays of two shapes (SpecLocus) *)

\* C11: whenever tri_values and invar_values have different shapes,
\* locus_calculation fails with an error and returns no result; no shape mismatch
\* (scalar against array, 1D against 2D) is silently accepted.
C11_ShapeMismatchFails ==
    (pc # "locus_entry" /\ tri_array.shape # invar_array.shape) =>
        /\ pc = "locus_raised"
        /\ err # "none"
        /\ locus = None

-----------------------------------------------------------------------------
(* Claims about the values KHPS2_calculation derives from the fitted          *)
(* parameters and about the sequencing of run_khps2_analysis (SpecPostFit)    *)

\* the locus evaluated at one point with the fitted parameters
CutOffAt(invar)      == tri_c_value(final_G_params, invar)
StrainAt(tri, invar) == ef_point(final_G_params, tri, invar, denominator_epsilon)

WithinEpsilon(tri, invar) ==
    FLt(FAbs(FSub(tri, CutOffAt(invar))), denominator_epsilon)
BehindCutOff(tri, invar) == FLt(tri, CutOffAt(invar))
OutOfRange(tri, invar) ==
    FLt(StrainAt(tri, invar), Q(0,1)) \/ FGt(StrainAt(tri, invar), z_lim[2])

\* C4: in the returned surface mesh ef every grid point with triaxiality <
\* cutOffTriaxiality, evaluated strain < 0 or evaluated strain > z_lim[1] is NaN;
\* every defined value is the evaluated strain, lies in [0, z_lim[1]] and has
\* triaxiality >= cutOffTriaxiality.
C4_SurfaceMasked ==
    pc = "calc_return" =>
        \A p \in DOMAIN ef :
            /\ ( \/ FLt(x_tri[p], tri_c[p])
                 \/ OutOfRange(x_tri[p], y_invar[p]) ) => IsNaN(ef[p])
            /\ ~IsNaN(ef[p]) =>
                  /\ ~FLt(x_tri[p], tri_c[p])
                  /\ ~FLt(ef[p], Q(0,1)) /\ ~FGt(ef[p], z_lim[2])
                  /\ ef[p] = StrainAt(x_tri[p], y_invar[p])

\* a constant cut-off of -1: a grid point behind it whose evaluated strain lies in
\* [0, z_lim[1]] and is masked all the same, and a grid point left defined
C4_Witness ==
    /\ pc = "calc_return"
    /\ \A p \in DOMAIN tri_c : tri_c[p] = Q(-1,1)
    /\ \E p \in DOMAIN ef :
          /\ FLt(x_tri[p], tri_c[p])
          /\ IsFinite(StrainAt(x_tri[p], y_invar[p]))
          /\ ~OutOfRange(x_tri[p], y_invar[p])
          /\ IsNaN(ef[p])
    /\ \E p \in DOMAIN ef : IsFinite(ef[p])

\* C5 as stated: each of ef, ef1 and ef_kal is NaN wherever |triaxiality - cutOff| <
\* denominator_epsilon, wherever triaxiality < cutOff, and wherever the computed
\* strain lies outside [0, z_max].
C5_EveryDerivedStrainMasked ==
    pc = "calc_return" =>
        /\ \A p \in DOMAIN ef :
              ( \/ WithinEpsilon(x_tri[p], y_invar[p])
                \/ BehindCutOff(x_tri[p], y_invar[p])
                \/ OutOfRange(x_tri[p], y_invar[p]) ) => IsNaN(ef[p])
        /\ \A i \in DOMAIN ef1 :
              ( \/ WithinEpsilon(tri1[i], invar1[i])
                \/ BehindCutOff(tri1[i], invar1[i])
                \/ OutOfRange(tri1[i], invar1[i]) ) => IsNaN(ef1[i])
        /\ \A i \in DOMAIN ef_kal :
              ( \/ WithinEpsilon(tri_k[i], invar_k[i])
                \/ BehindCutOff(tri_k[i], invar_k[i])
                \/ OutOfRange(tri_k[i], invar_k[i]) ) => IsNaN(ef_kal[i])

\* C5 amended: ef is NaN under each of the three conditions; ef1 is NaN within
\* epsilon of the cut-off and outside [0, z_max] but is not masked behind the
\* cut-off; ef_kal is NaN only within epsilon of the cut-off.
C5_MaskedAsCoded ==
    pc = "calc_return" =>
        /\ \A p \in DOMAIN ef :
              ( \/ WithinEpsilon(x_tri[p], y_invar[p])
                \/ BehindCutOff(x_tri[p], y_invar[p])
                \/ OutOfRange(x_tri[p], y_invar[p]) ) => IsNaN(ef[p])
        /\ \A i \in DOMAIN ef1 :
              /\ ( \/ WithinEpsilon(tri1[i], invar1[i])
                   \/ OutOfRange(tri1[i], invar1[i]) ) => IsNaN(ef1[i])
              /\ ~IsNaN(ef1[i]) => ef1[i] = StrainAt(tri1[i], invar1[i])
        /\ \A i \in DOMAIN ef_kal :
              /\ WithinEpsilon(tri_k[i], invar_k[i]) => IsNaN(ef_kal[i])
              /\ ef_kal[i] = StrainAt(tri_k[i], invar_k[i])

\* a defined ef1 behind the cut-off, a defined ef_kal outside [0, z_max], and masked
\* values of ef1 (out of range) and ef_kal (within epsilon)
C5_Witness ==
    /\ pc = "calc_return"
    /\ \E i \in DOMAIN ef1 : BehindCutOff(tri1[i], invar1[i]) /\ IsFinite(ef1[i])
    /\ \E i \in DOMAIN ef1 :
          /\ OutOfRange(tri1[i], invar1[i]) /\ ~WithinEpsilon(tri1[i], invar1[i])
          /\ IsNaN(ef1[i])
    /\ \E i \in DOMAIN ef_kal : IsFinite(ef_kal[i]) /\ OutOfRange(tri_k[i], invar_k[i])
    /\ \E i \in DOMAIN ef_kal : WithinEpsilon(tri_k[i], invar_k[i]) /\ IsNaN(ef_kal[i])

\* C6: the returned pt_calibration_error is finite and non-negative.
C6_TotalPercentageFinite ==
    pc = "calc_return" =>
        /\ IsFinite(pt_calibration_error)
        /\ pt_calibration_error.n >= 0

\* the percentage-error denominator measured + machine-epsilon is within machine
\* epsilon of zero
NearZeroDenominator(measured) ==
    ~FGt(FAbs(FAdd(measured, finfo_eps)), finfo_eps)

\* C7: a specimen whose denominator measured + machine-epsilon is near zero
\* contributes exactly 0 to p_calibration_error, whatever its predicted strain.
C7_NearZeroContributesZero ==
    pc = "calc_return" =>
        \A i \in DOMAIN p_calibration_error :
            NearZeroDenominator(ef_k[i]) => p_calibration_error[i] = Q(0,1)

\* C10: run_khps2_analysis calls KHPS2_calculation once; it calls KHPS2_plotting
\* once, after the calibration has returned and with the calibration's arrays as
\* returned; it never calls it when the calibration raises; the dictionary it
\* returns has the five keys final_G_params, total_abs_difference,
\* p_calibration_error, pt_calibration_error and ef_r, each the calibration's output.
C10_Sequencing ==
    /\ calc_calls = (IF pc = "main_entry" THEN 0 ELSE 1)
    /\ plot_calls = (IF pc \in {"main_summary", "main_done"} THEN 1 ELSE 0)
    /\ plot_calls = 1 => plot_args = plotting_arguments
    /\ pc \in {"calc_raised", "main_raised"} => err # "none" /\ plot_calls = 0
    /\ pc # "main_done" => summary = None
    /\ pc = "main_done" =>
          /\ DOMAIN summary = {"final_G_params", "total_abs_difference",
                               "p_calibration_error", "pt_calibration_error", "ef_r"}
          /\ summary.final_G_params = final_G_params
          /\ summary.total_abs_difference = total_abs_difference
          /\ summary.p_calibration_error = p_calibration_error
          /\ summary.pt_calibration_error = pt_calibration_error
          /\ summary.ef_r = ef_r

\* the analysis has returned its summary after one calibration and one plot, the
\* two totals being different values
C10_Witness ==
    /\ pc = "main_done"
    /\ calc_calls = 1 /\ plot_calls = 1
    /\ plot_args.ef = ef
    /\ summary.total_abs_difference # summary.pt_calibration_error
    /\ Len(summary.ef_r) = 2

\* C13: the returned total_abs_difference is the sum of |measured_i - predicted_i|
\* over exactly the specimens whose residual ef_r[i] is not NaN; a specimen with a
\* NaN residual contributes nothing, so the total is never NaN and is 0 when every
\* residual is NaN.  ef_r and p_calibration_error have one entry per specimen, in
\* the insertion order of the specimen set.
C13_TotalOverDefinedResiduals ==
    pc = "calc_return" =>
        LET n == Len(specimen_data)
            measured(i)  == specimen_data[i][1]
            predicted(i) == StrainAt(specimen_data[i][2], specimen_data[i][3])
            contribution(i) ==
                IF IsNaN(ef_r[i]) THEN Q(0,1)
                ELSE FAbs(FSub(measured(i), predicted(i)))
        IN  /\ DOMAIN ef_r = 1..n
            /\ DOMAIN p_calibration_error = 1..n
            /\ \A i \in 1..n :
                  /\ ef_r[i] = FSub(measured(i), predicted(i))
                  /\ p_calibration_error[i] = percentage_error(measured(i), predicted(i))
            /\ total_abs_difference = FSum([i \in 1..n |-> contribution(i)])
            /\ ~IsNaN(total_abs_difference)
            /\ (\A i \in 1..n : IsNaN(ef_r[i])) => total_abs_difference = Q(0,1)

\* two specimens, the first with a NaN residual and the second with a defined
\* non-zero one: the total is the second's absolute difference alone
C13_Witness ==
    /\ pc = "calc_return"
    /\ Len(specimen_data) = 2
    /\ IsNaN(ef_r[1])
    /\ IsFinite(ef_r[2]) /\ ef_r[2] # Q(0,1)
    /\ total_abs_difference = FAbs(ef_r[2])
    /\ p_calibration_error[1] # p_calibration_error[2]

====
